---- MODULE Spec2Model ----
(***************************************************************************)
(* Model of cmr-search.py: three tool handlers (get_datasets, get_data,    *)
(* download) around the earthaccess client.  Text is a sequence of string  *)
(* tokens; concatenation of text is concatenation of sequences.  The       *)
(* client and the filesystem are a black box whose outcomes (a value or a  *)
(* raised Exception) are inputs of each handler.                           *)
(***************************************************************************)
EXTENDS Integers, Sequences, FiniteSets, TLC

VARIABLES pc, req, world, calls, raised, ret

vars == <<pc, req, world, calls, raised, ret>>

\* ---------------------------------------------------------------- bounds
MaxCollections == 2
MaxGranules == 2
MaxFiles == 2
MaxIdsLen == 2
MaxCount == 1

\* ------------------------------------------------------- python helpers
None == "None"

Min(a, b) == IF a < b THEN a ELSE b

Max(a, b) == IF a > b THEN a ELSE b

SeqsUpTo(S, n) == UNION {[1..k -> S] : k \in 0..n}

EmptyDict == [k \in {} |-> None]

\* args[k] = v
Put(d, k, v) == [x \in (DOMAIN d) \cup {k} |-> IF x = k THEN v ELSE d[x]]

\* s[:k] of a python list
SliceTo(s, k) ==
    IF k >= 0 THEN SubSeq(s, 1, Min(k, Len(s)))
    ELSE SubSeq(s, 1, Max(0, Len(s) + k))

Digits == <<"0", "1", "2", "3", "4", "5", "6", "7", "8", "9">>

RECURSIVE str(_)
\* str(n) of a non-negative int, one token per digit
str(n) == IF n < 10 THEN <<Digits[n + 1]>>
          ELSE str(n \div 10) \o <<Digits[(n % 10) + 1]>>

RECURSIVE Join(_, _)
\* sep.join(parts)
Join(sep, parts) ==
    IF Len(parts) = 0 THEN <<>>
    ELSE IF Len(parts) = 1 THEN parts[1]
    ELSE parts[1] \o sep \o Join(sep, Tail(parts))

RECURSIVE CountTok(_, _)
CountTok(text, tok) ==
    IF Len(text) = 0 THEN 0
    ELSE (IF text[1] = tok THEN 1 ELSE 0) + CountTok(Tail(text), tok)

\* outcome of a call into the client or the filesystem
Ok(v) == [ok |-> TRUE, val |-> v]

Raises == [ok |-> FALSE, val |-> <<>>]

\* ------------------------------------------------------ collection records
\* accessors of a DataCollection: concept_id() and abstract() return a value
\* or raise; summary() returns a mapping (possibly without 'short-name') or
\* raises
DsGood == [concept_id |-> Ok("C1"), abstract |-> Ok("sea surface"),
           summary |-> Ok([k \in {"short-name"} |-> "SST"])]

DsNoDistribution == [concept_id |-> Ok("C2"), abstract |-> Ok("ice"), summary |-> Raises]

DsNoShortName == [concept_id |-> Ok("C3"), abstract |-> Ok("wind"), summary |-> Ok(EmptyDict)]

DsNoAbstract == [concept_id |-> Ok("C4"), abstract |-> Raises,
                 summary |-> Ok([k \in {"short-name"} |-> "OCN"])]

DsNoConceptId == [concept_id |-> Raises, abstract |-> Ok("land"),
                  summary |-> Ok([k \in {"short-name"} |-> "LND"])]

Collections == {DsGood, DsNoDistribution, DsNoShortName, DsNoAbstract, DsNoConceptId}

\* the f-string of the try block: raises when an accessor or the key lookup does
render_dataset(props) ==
    IF props.concept_id.ok /\ props.abstract.ok /\ props.summary.ok
       /\ "short-name" \in DOMAIN props.summary.val
    THEN Ok(<<"\n", "ConceptID: ", props.concept_id.val, "\n",
              "Description: ", props.abstract.val, "\n",
              "Shortname: ", props.summary.val["short-name"], "\n">>)
    ELSE Raises

format_dataset(feature) ==
    IF ~feature.concept_id.ok
    THEN [raised |-> TRUE, text |-> <<>>]
    ELSE IF render_dataset(feature).ok
         THEN [raised |-> FALSE, text |-> render_dataset(feature).val]
         ELSE [raised |-> FALSE, text |-> <<>>]

\* ---------------------------------------------------------- granule records
\* dictlike: granule.get(...) works; meta: the mapping under 'meta' (with or
\* without a 'concept-id'); begin/end: RangeDateTime fields ("" when absent);
\* size: outcome of size(), the value by what the code observes of it, its
\* truth value (bool) and its text in an f-string (str); links: outcome of
\* data_links(); cid: what granule.concept_id does (a value, raises, or no
\* such attribute)
Number(truth, text) == [bool |-> truth, str |-> text]

G1 == [name |-> "G1", dictlike |-> TRUE, meta |-> [k \in {"concept-id"} |-> "G1-id"],
       begin |-> "2002-01-01", end |-> "2002-01-02", size |-> Ok(Number(TRUE, "1.5")),
       links |-> Ok(<<"https://a", "https://b">>), cid |-> "ok"]

G2 == [name |-> "G2", dictlike |-> TRUE, meta |-> EmptyDict,
       begin |-> "2002-01-01", end |-> "", size |-> Raises,
       links |-> Ok(<<"https://c">>), cid |-> "raise"]

G3 == [name |-> "G3", dictlike |-> FALSE, meta |-> EmptyDict,
       begin |-> "", end |-> "", size |-> Ok(Number(FALSE, "0.0")),
       links |-> Raises, cid |-> "noattr"]

\* a granule with an empty concept-id, a size of -0.0 and no links
G4 == [name |-> "G4", dictlike |-> TRUE, meta |-> [k \in {"concept-id"} |-> ""],
       begin |-> "", end |-> "", size |-> Ok(Number(FALSE, "-0.0")),
       links |-> Ok(<<>>), cid |-> "ok"]

Granules == {G1, G2, G3}

temporal_info(granule) ==
    IF granule.begin # "" /\ granule.end # ""
    THEN <<"Temporal: ", granule.begin, " to ", granule.end>>
    ELSE IF granule.begin # "" THEN <<"Temporal: ", granule.begin>>
    ELSE <<>>

size_info(granule) ==
    IF granule.size.ok /\ granule.size.val.bool
    THEN <<"Size: ", granule.size.val.str, " MB">>
    ELSE <<>>

links_info(granule) ==
    IF granule.links.ok /\ Len(granule.links.val) > 0
    THEN IF Len(granule.links.val) = 1
         THEN <<"Data Link: ", granule.links.val[1]>>
         ELSE <<"Data Links:", "\n">> \o
              Join(<<"\n">>, [i \in 1..Len(granule.links.val) |->
                                 <<"  - ", granule.links.val[i]>>])
    ELSE <<>>

format_granule(granule) ==
    IF ~granule.dictlike THEN <<"ConceptID: Unknown">>
    ELSE LET concept_id == IF "concept-id" \in DOMAIN granule.meta
                           THEN granule.meta["concept-id"] ELSE "Unknown"
             opt == <<temporal_info(granule), size_info(granule), links_info(granule)>>
             result_parts == <<<<"ConceptID: ", concept_id>>>> \o
                             SelectSeq(opt, LAMBDA p : p # <<>>)
         IN  Join(<<"\n">>, result_parts)

\* ------------------------------------------------------------ get_datasets
datasets_args(startdate, stopdate, daac, keyword) ==
    LET a1 == IF keyword # None THEN Put(EmptyDict, "keyword", keyword) ELSE EmptyDict
        a2 == IF daac # None THEN Put(a1, "daac", daac) ELSE a1
    IN  IF startdate # None \/ stopdate # None
        THEN Put(a2, "temporal", <<startdate, stopdate>>) ELSE a2

\* found: outcome of earthaccess.search_datasets
get_datasets(startdate, stopdate, daac, keyword, found) ==
    LET args == datasets_args(startdate, stopdate, daac, keyword)
        log == <<[fn |-> "search_datasets", kwargs |-> Put(args, "count", 5)]>>
        blocks == [i \in 1..Len(found.val) |-> format_dataset(found.val[i])]
    IN  IF ~found.ok \/ \E i \in 1..Len(found.val) : blocks[i].raised
        THEN [raised |-> TRUE, ret |-> <<>>, calls |-> log]
        ELSE [raised |-> FALSE,
              ret |-> Join(<<"\n---\n">>, [i \in 1..Len(found.val) |-> blocks[i].text]),
              calls |-> log]

\* ---------------------------------------------------------------- get_data
\* variant of data_args: the range is passed only when both dates are given
data_args_both_dates(daac, short_name, startdate, stopdate, keyword) ==
    LET a1 == IF daac # None THEN Put(EmptyDict, "daac", daac) ELSE EmptyDict
        a2 == IF short_name # None THEN Put(a1, "short_name", short_name) ELSE a1
    IN  IF startdate # None /\ stopdate # None
        THEN Put(a2, "temporal", <<startdate, stopdate>>) ELSE a2

data_args(daac, short_name, startdate, stopdate, keyword) ==
    LET a1 == IF daac # None THEN Put(EmptyDict, "daac", daac) ELSE EmptyDict
        a2 == IF short_name # None THEN Put(a1, "short_name", short_name) ELSE a1
    IN  IF startdate # None \/ stopdate # None
        THEN Put(a2, "temporal", <<startdate, stopdate>>) ELSE a2

\* found: outcome of earthaccess.search_data
get_data(daac, short_name, startdate, stopdate, keyword, found) ==
    LET args == data_args(daac, short_name, startdate, stopdate, keyword)
        log == <<[fn |-> "search_data", kwargs |-> Put(args, "count", 10)]>>
    IN  IF ~found.ok
        THEN [raised |-> TRUE, ret |-> <<>>, calls |-> log]
        ELSE [raised |-> FALSE,
              ret |-> Join(<<"\n---\n">>, [i \in 1..Len(found.val) |->
                                              format_granule(found.val[i])]),
              calls |-> log]

\* ---------------------------------------------------------------- download
\* concept_ids=None; a supplied concept_ids is a sequence of characters
NoIds == <<None>>

Truthy(concept_ids) == concept_ids # NoIds /\ Len(concept_ids) > 0

RECURSIVE split(_, _)
\* s.split(sep)
split(s, sep) ==
    IF \A i \in 1..Len(s) : s[i] # sep THEN <<s>>
    ELSE LET k == CHOOSE i \in 1..Len(s) : s[i] = sep /\ \A j \in 1..(i - 1) : s[j] # sep
         IN  <<SubSeq(s, 1, k - 1)>> \o split(SubSeq(s, k + 1, Len(s)), sep)

\* the characters str.strip() removes (those for which str.isspace() holds):
\* \t, \n, \v, \f, \r, U+001C..U+001F, blank, U+0085, U+00A0, U+1680.  The
\* remaining ones (U+2000..U+200A, U+2028, U+2029, U+202F, U+205F, U+3000)
\* cannot be written in a string of this language and so cannot occur in a
\* concept_ids of the model either.
Whitespace ==
    {"\t", "\n", "", "\f", "\r", "", "",
     "", "", " ", "", " ", " "}

RECURSIVE strip(_)
\* s.strip()
strip(s) ==
    IF Len(s) = 0 THEN s
    ELSE IF s[1] \in Whitespace THEN strip(Tail(s))
    ELSE IF s[Len(s)] \in Whitespace THEN strip(SubSeq(s, 1, Len(s) - 1))
    ELSE s

concept_id_list(concept_ids) ==
    LET parts == split(concept_ids, ",")
    IN  [i \in 1..Len(parts) |-> strip(parts[i])]

RECURSIVE lookup_stops_at_raise(_, _, _)
\* variant of lookup_from: a lookup that raises ends the loop
lookup_stops_at_raise(ids, lookups, i) ==
    IF i > Len(ids) THEN [calls |-> <<>>, granules |-> <<>>]
    ELSE LET call == [fn |-> "search_data", kwargs |-> [concept_id |-> ids[i]]]
             rest == lookup_stops_at_raise(ids, lookups, i + 1)
         IN  IF ~lookups[i].ok THEN [calls |-> <<call>>, granules |-> <<>>]
             ELSE [calls |-> <<call>> \o rest.calls,
                   granules |-> lookups[i].val \o rest.granules]

RECURSIVE lookup_from(_, _, _)
\* the for loop over concept_id_list from position i on:
\* one search_data(concept_id=...) per identifier, a raise is logged and skipped
lookup_from(ids, lookups, i) ==
    IF i > Len(ids) THEN [calls |-> <<>>, granules |-> <<>>]
    ELSE LET rest == lookup_from(ids, lookups, i + 1)
             call == [fn |-> "search_data", kwargs |-> [concept_id |-> ids[i]]]
         IN  [calls |-> <<call>> \o rest.calls,
              granules |-> (IF lookups[i].ok THEN lookups[i].val ELSE <<>>)
                           \o rest.granules]

lookup_loop(ids, lookups) == lookup_from(ids, lookups, 1)

\* variant of download_args: daac is passed on even when it is None
download_args_always_daac(daac, short_name, startdate, stopdate) ==
    LET a1 == Put(EmptyDict, "daac", daac)
        a2 == IF short_name # None THEN Put(a1, "short_name", short_name) ELSE a1
    IN  IF startdate # None \/ stopdate # None
        THEN Put(a2, "temporal", <<startdate, stopdate>>) ELSE a2

download_args(daac, short_name, startdate, stopdate) ==
    LET a1 == IF daac # None THEN Put(EmptyDict, "daac", daac) ELSE EmptyDict
        a2 == IF short_name # None THEN Put(a1, "short_name", short_name) ELSE a1
    IN  IF startdate # None \/ stopdate # None
        THEN Put(a2, "temporal", <<startdate, stopdate>>) ELSE a2

\* "Limit the number of granules if not using concept IDs"
limit(granules, concept_ids, count) ==
    IF ~Truthy(concept_ids) /\ Len(granules) > count
    THEN SliceTo(granules, count) ELSE granules

\* downloaded files: isstr: isinstance(file_path, str); name: os.path.basename;
\* exists: os.path.exists; size: outcome of os.path.getsize, in bytes.
\* F1 is a path of an existing file, F2 an entry that is not a str
F1 == [isstr |-> TRUE, name |-> "g1.nc", exists |-> TRUE, size |-> Ok(1572864)]

F2 == [isstr |-> FALSE, name |-> "", exists |-> FALSE, size |-> Raises]

Files == {F1, F2}

MiB == 1024 * 1024

\* f"{size_bytes / (1024 * 1024):.2f}"
fmt2f(size_bytes) ==
    LET q == (size_bytes * 100) \div MiB
        r == (size_bytes * 100) % MiB
        h == IF 2 * r > MiB \/ (2 * r = MiB /\ q % 2 = 1) THEN q + 1 ELSE q
    IN  str(h \div 100) \o <<".", Digits[((h % 100) \div 10) + 1], Digits[(h % 10) + 1]>>

\* one entry of the manifest, i counted from 0
manifest_line(granule, file_path, i) ==
    IF granule.cid = "raise" THEN <<"  - Downloaded file ">> \o str(i)
    ELSE LET concept_id == IF granule.cid = "ok" THEN <<granule.name>>
                           ELSE <<"granule_">> \o str(i)
             file_name == IF file_path.isstr THEN <<file_path.name>>
                          ELSE <<"file_">> \o str(i)
             file_size == IF file_path.isstr /\ file_path.exists /\ file_path.size.ok
                          THEN <<" (">> \o fmt2f(file_path.size.val) \o <<" MB)">>
                          ELSE <<>>
         IN  <<"  - ">> \o concept_id \o <<": ">> \o file_name \o file_size

\* variant of manifest_parts: an entry whose formatting fails is left out
manifest_parts_skip_failed(granules, downloaded_files, local_path) ==
    LET paired == SliceTo(granules, Len(downloaded_files))
        n == Min(Len(paired), Len(downloaded_files))
        header == <<"Successfully downloaded ">> \o str(Len(downloaded_files)) \o
                  <<" files to ", local_path, ":">>
        kept == SelectSeq([i \in 1..n |-> i], LAMBDA i : paired[i].cid # "raise")
    IN  <<header>> \o
        [k \in 1..Len(kept) |->
            manifest_line(paired[kept[k]], downloaded_files[kept[k]], kept[k] - 1)]

manifest_parts(granules, downloaded_files, local_path) ==
    LET paired == SliceTo(granules, Len(downloaded_files))
        n == Min(Len(paired), Len(downloaded_files))
        header == <<"Successfully downloaded ">> \o str(Len(downloaded_files)) \o
                  <<" files to ", local_path, ":">>
    IN  <<header>> \o
        [i \in 1..n |-> manifest_line(paired[i], downloaded_files[i], i - 1)]

AuthError == <<"Error: Failed to authenticate with earthaccess. Please check your credentials.">>

ParamError == <<"Error: Either concept_ids or search parameters (daac, short_name) must be provided.">>

NoGranules == <<"No granules found matching the specified criteria.">>

NoFiles(local_path) ==
    <<"No files were downloaded. Check permissions and available space in ", local_path>>

\* variant of authenticated: the flag is not looked at
authenticated_ignored(auth) == TRUE

\* auth.authenticated
authenticated(auth) == auth.val

Return(log, text) == [raised |-> FALSE, exc |-> "", ret |-> text, calls |-> log]

Raise(log, e) == [raised |-> TRUE, exc |-> e, ret |-> <<>>, calls |-> log]

\* lines 215-246: from os.makedirs on
fetch(granules, local_path, env, log) ==
    LET log1 == log \o <<[fn |-> "makedirs", path |-> local_path]>>
        log2 == log1 \o <<[fn |-> "download", granules |-> granules, path |-> local_path]>>
    IN  IF ~env.makedirs.ok THEN Raise(log1, "makedirs failed")
        ELSE IF ~env.download.ok THEN Raise(log2, "download failed")
        ELSE IF Len(env.download.val) = 0 THEN Return(log2, NoFiles(local_path))
        ELSE Return(log2, Join(<<"\n">>,
                 manifest_parts(granules, env.download.val, local_path)))

\* lines 206-213: the emptiness test, then the limit
select(granules, local_path, concept_ids, count, env, log) ==
    IF Len(granules) = 0 THEN Return(log, NoGranules)
    ELSE fetch(limit(granules, concept_ids, count), local_path, env, log)

\* the body of the try block.  env: outcomes of earthaccess.login (a flag
\* 'authenticated' or a raise), of each per-identifier lookup, of the
\* parameter search, of os.makedirs and of earthaccess.download
download_try(local_path, daac, short_name, concept_ids, startdate, stopdate, count, env) ==
    LET log0 == <<[fn |-> "login"]>>
        args == download_args(daac, short_name, startdate, stopdate)
        byid == lookup_loop(concept_id_list(concept_ids), env.lookups)
        call == [fn |-> "search_data", kwargs |-> Put(args, "count", count)]
    IN  IF ~env.login.ok THEN Raise(log0, "login failed")
        ELSE IF ~authenticated(env.login) THEN Return(log0, AuthError)
        ELSE IF Truthy(concept_ids)
        THEN select(byid.granules, local_path, concept_ids, count, env, log0 \o byid.calls)
        ELSE IF DOMAIN args = {} THEN Return(log0, ParamError)
        ELSE IF ~env.search.ok THEN Raise(log0 \o <<call>>, "search failed")
        ELSE select(env.search.val, local_path, concept_ids, count, env, log0 \o <<call>>)

\* variant of download: without the outer try/except
download_unguarded(local_path, daac, short_name, concept_ids, startdate, stopdate, count, env) ==
    download_try(local_path, daac, short_name, concept_ids,
                 startdate, stopdate, count, env)

\* except Exception as e: return f"Error downloading files: {str(e)}"
download(local_path, daac, short_name, concept_ids, startdate, stopdate, count, env) ==
    LET r == download_try(local_path, daac, short_name, concept_ids,
                          startdate, stopdate, count, env)
    IN  IF r.raised THEN Return(r.calls, <<"Error downloading files: ", r.exc>>)
        ELSE r

\* ------------------------------------------------------------ input domains
Dates == {None, "2002"}

Daacs == {None, "PODAAC"}

ShortNames == {None, "MUR"}

Keywords == {None, "sst"}

Paths == {"./downloads"}

\* count=-1 is the client's own default
Counts == -1..MaxCount

Spaced == {<<" ">>, <<" ", "A", ",", " ", "A", " ">>, <<"\t", "A", ",", "A", "\n">>}

ConceptIdStrs == {NoIds} \cup SeqsUpTo({"A", ","}, MaxIdsLen) \cup Spaced

\* a comma-separated string of at most MaxIdsLen characters has at most
\* MaxIdsLen + 1 identifiers
MaxIds == MaxIdsLen + 1

DatasetOutcomes == {Raises} \cup {Ok(v) : v \in SeqsUpTo(Collections, MaxCollections)}

SearchOutcomes == {Raises} \cup {Ok(v) : v \in SeqsUpTo(Granules, MaxGranules)}

\* what get_data may find: G4 differs from G1 only in what format_granule reads
DataOutcomes == {Raises} \cup {Ok(v) : v \in SeqsUpTo(Granules \cup {G4}, MaxGranules)}

\* a lookup raises, finds nothing, finds one granule or finds two
LookupOutcomes == {Raises, Ok(<<>>), Ok(<<G1>>), Ok(<<G2, G1>>)}

LoginOutcomes == {Raises, Ok(FALSE), Ok(TRUE)}

MakedirsOutcomes == {Raises, Ok(TRUE)}

DownloadOutcomes == {Raises} \cup {Ok(v) : v \in SeqsUpTo(Files, MaxFiles)}

\* ------------------------------------------------------------ state machine
Idle == [op |-> "none"]

NoWorld == [op |-> "none"]

Init ==
    /\ pc = "idle"
    /\ req = Idle
    /\ world = NoWorld
    /\ calls = <<>>
    /\ raised = FALSE
    /\ ret = <<>>

DatasetsRequests ==
    {[op |-> "get_datasets", startdate |-> startdate, stopdate |-> stopdate,
      daac |-> daac, keyword |-> keyword] :
        startdate \in Dates, stopdate \in Dates, daac \in Daacs, keyword \in Keywords}

DataRequests ==
    {[op |-> "get_data", daac |-> daac, short_name |-> short_name,
      startdate |-> startdate, stopdate |-> stopdate, keyword |-> keyword] :
        daac \in Daacs, short_name \in ShortNames, startdate \in Dates,
        stopdate \in Dates, keyword \in Keywords}

DownloadRequests ==
    {[op |-> "download", local_path |-> local_path, daac |-> daac,
      short_name |-> short_name, concept_ids |-> concept_ids,
      startdate |-> startdate, stopdate |-> stopdate, count |-> count] :
        local_path \in Paths, daac \in Daacs, short_name \in ShortNames,
        concept_ids \in ConceptIdStrs, startdate \in Dates, stopdate \in Dates,
        count \in Counts}

\* the host dispatches a tool call to its handler
CallTool ==
    /\ pc = "idle"
    /\ pc' = "called"
    /\ req' \in DatasetsRequests \cup DataRequests \cup DownloadRequests
    /\ UNCHANGED <<world, calls, raised, ret>>

Finish(r) ==
    /\ pc' = "done"
    /\ calls' = r.calls
    /\ raised' = r.raised
    /\ ret' = r.ret
    /\ UNCHANGED req

GetDatasets ==
    /\ pc = "called" /\ req.op = "get_datasets"
    /\ \E found \in DatasetOutcomes :
          /\ world' = [search |-> found]
          /\ Finish(get_datasets(req.startdate, req.stopdate, req.daac,
                                 req.keyword, found))

GetData ==
    /\ pc = "called" /\ req.op = "get_data"
    /\ \E found \in DataOutcomes :
          /\ world' = [search |-> found]
          /\ Finish(get_data(req.daac, req.short_name, req.startdate,
                             req.stopdate, req.keyword, found))

\* The client answers only the calls an invocation makes: the outcome of a
\* call that is never made is left at Raises.
Unasked == [login |-> Raises, lookups |-> [i \in 1..MaxIds |-> Raises],
            search |-> Raises, makedirs |-> Raises, download |-> Raises]

Asks(r, fn) == {i \in 1..Len(r.calls) : r.calls[i].fn = fn}

AsksById(r) == {i \in Asks(r, "search_data") : "concept_id" \in DOMAIN r.calls[i].kwargs}

AsksByParams(r) == {i \in Asks(r, "search_data") : "count" \in DOMAIN r.calls[i].kwargs}

Download ==
    /\ pc = "called" /\ req.op = "download"
    /\ LET run(env) == download(req.local_path, req.daac, req.short_name,
                                req.concept_ids, req.startdate, req.stopdate,
                                req.count, env)
       IN  \E login \in LoginOutcomes :
           LET e1 == [Unasked EXCEPT !.login = login]
               n == Cardinality(AsksById(run(e1)))
           IN  \E answers \in [1..n -> LookupOutcomes],
                  search \in (IF AsksByParams(run(e1)) # {} THEN SearchOutcomes
                              ELSE {Raises}) :
               LET e2 == [e1 EXCEPT !.search = search,
                                    !.lookups = [i \in 1..MaxIds |->
                                        IF i <= n THEN answers[i] ELSE Raises]]
               IN  \E makedirs \in (IF Asks(run(e2), "makedirs") # {}
                                    THEN MakedirsOutcomes ELSE {Raises}) :
                   LET e3 == [e2 EXCEPT !.makedirs = makedirs]
                   IN  \E fetched \in (IF Asks(run(e3), "download") # {}
                                       THEN DownloadOutcomes ELSE {Raises}) :
                       LET env == [e3 EXCEPT !.download = fetched]
                       IN  /\ world' = env
                           /\ Finish(run(env))

\* the text (or the exception) goes back to the host, which waits for the
\* next request
Respond ==
    /\ pc = "done"
    /\ pc' = "idle"
    /\ req' = Idle
    /\ world' = NoWorld
    /\ calls' = <<>>
    /\ raised' = FALSE
    /\ ret' = <<>>

Next == CallTool \/ GetDatasets \/ GetData \/ Download \/ Respond

Spec == Init /\ [][Next]_vars

TypeOK == pc \in {"idle", "called", "done"} /\ raised \in BOOLEAN

\* ------------------------------------------------------------------ claims
Done(op) == pc = "done" /\ req.op = op

NoParams == /\ req.daac = None /\ req.short_name = None
            /\ req.startdate = None /\ req.stopdate = None

LoggedIn == world.login = Ok(TRUE)

LookupCalls == SelectSeq(calls, LAMBDA c : c.fn = "search_data"
                                           /\ "concept_id" \in DOMAIN c.kwargs)

ParamCalls == SelectSeq(calls, LAMBDA c : c.fn \in {"search_data", "search_datasets"}
                                          /\ "count" \in DOMAIN c.kwargs)

SearchCallsMade == SelectSeq(calls, LAMBDA c : c.fn \in {"search_data", "search_datasets"})

MakedirsCalls == SelectSeq(calls, LAMBDA c : c.fn = "makedirs")

DownloadCalls == SelectSeq(calls, LAMBDA c : c.fn = "download")

LineCount(text) == 1 + CountTok(text, "\n")

\* C1 as stated: a download without concept_ids and without daac, short_name,
\* startdate and stopdate always returns the precondition error and never
\* calls the search function.
C1_AsStated ==
    (Done("download") /\ ~Truthy(req.concept_ids) /\ NoParams)
        => (ret = ParamError /\ SearchCallsMade = <<>>)

\* C1 amended: a download without concept_ids and without daac, short_name,
\* startdate and stopdate never calls the search function, and returns the
\* precondition error whenever login succeeded and reported authenticated.
C1_PreconditionError ==
    (Done("download") /\ ~Truthy(req.concept_ids) /\ NoParams)
        => /\ SearchCallsMade = <<>>
           /\ LoggedIn => (ret = ParamError /\ ~raised)

C1_Witness ==
    /\ Done("download") /\ req.concept_ids = <<>> /\ NoParams /\ req.count = 1
    /\ LoggedIn /\ ret = ParamError /\ calls = <<[fn |-> "login"]>>

\* C2: whatever the arguments, when login reports not-authenticated the
\* download returns the authentication error and makes no search call, no
\* directory creation and no batch download call.
C2_NotAuthenticated ==
    (Done("download") /\ world.login = Ok(FALSE))
        => /\ ret = AuthError /\ ~raised
           /\ SearchCallsMade = <<>> /\ MakedirsCalls = <<>> /\ DownloadCalls = <<>>

C2_Witness ==
    /\ Done("download") /\ world.login = Ok(FALSE) /\ ret = AuthError
    /\ req.concept_ids = <<"A", ",">> /\ req.daac = "PODAAC" /\ req.startdate = "2002"

RECURSIVE Succeeded(_, _)
\* the results of the first n lookups that did not raise, in order
Succeeded(answers, n) ==
    IF n = 0 THEN <<>>
    ELSE Succeeded(answers, n - 1) \o (IF answers[n].ok THEN answers[n].val ELSE <<>>)

Commas(text) == CountTok(text, ",")

\* C3: an authenticated download with a non-empty concept_ids string of n
\* comma-separated identifiers makes exactly n lookups, one per identifier in
\* order, whichever of them raise; what is accumulated is the concatenation
\* of the results of the lookups that succeeded (an empty accumulation ends
\* the download, a non-empty one is what is handed on), and no search by
\* parameters is made.
C3_OneLookupPerId ==
    (Done("download") /\ LoggedIn /\ Truthy(req.concept_ids))
        => LET n == Commas(req.concept_ids) + 1
               ids == concept_id_list(req.concept_ids)
               acc == Succeeded(world.lookups, n)
           IN  /\ Len(LookupCalls) = n
               /\ Len(ids) = n
               /\ \A i \in 1..n : LookupCalls[i].kwargs = [concept_id |-> ids[i]]
               /\ SubSeq(calls, 2, n + 1) = LookupCalls
               /\ ParamCalls = <<>>
               /\ (acc = <<>>) <=> (ret = NoGranules)
               /\ (acc = <<>>) <=> (MakedirsCalls = <<>>)
               /\ \A i \in 1..Len(DownloadCalls) : DownloadCalls[i].granules = acc

C3_Witness ==
    /\ Done("download") /\ LoggedIn /\ req.concept_ids = <<",", ",">>
    /\ ~world.lookups[1].ok /\ ~world.lookups[2].ok /\ world.lookups[3] = Ok(<<G1>>)
    /\ Len(LookupCalls) = 3
    /\ Len(DownloadCalls) = 1 /\ DownloadCalls[1].granules = <<G1>>

\* a collaborator or filesystem step of the download raised, outside the
\* per-identifier lookups and the manifest lines
TopLevelFailure ==
    \/ ~world.login.ok
    \/ ParamCalls # <<>> /\ ~world.search.ok
    \/ MakedirsCalls # <<>> /\ ~world.makedirs.ok
    \/ DownloadCalls # <<>> /\ ~world.download.ok

\* C4: download never raises to its caller; it ends by returning text, and a
\* failure of login, of the search by parameters, of the directory creation
\* or of the batch download gives "Error downloading files: <message>".
C4_NeverRaises ==
    Done("download")
        => /\ ~raised
           /\ Len(ret) > 0
           /\ TopLevelFailure <=> (ret[1] = "Error downloading files: ")
           /\ TopLevelFailure => Len(ret) = 2

C4_Witness ==
    /\ Done("download") /\ LoggedIn /\ world.makedirs.ok /\ ~world.download.ok
    /\ DownloadCalls # <<>>
    /\ ret = <<"Error downloading files: ", "download failed">>

\* C5 as stated: without concept identifiers the list handed to the batch
\* download is the first count granules of the search result, at most count
\* of them, for every count; with concept identifiers it is the accumulated
\* list, untruncated.
C5_AtMostCount ==
    Done("download")
        => \A i \in 1..Len(DownloadCalls) :
              LET handed == DownloadCalls[i].granules
              IN  IF Truthy(req.concept_ids)
                  THEN handed = Succeeded(world.lookups, Commas(req.concept_ids) + 1)
                  ELSE /\ Len(handed) <= req.count
                       /\ Len(handed) <= Len(world.search.val)
                       /\ handed = SubSeq(world.search.val, 1, Len(handed))

\* C6 as stated: a successful download returns a header line and exactly one
\* entry line per downloaded file.
C6_AsStated ==
    (Done("download") /\ DownloadCalls # <<>> /\ world.download.ok
     /\ world.download.val # <<>>)
        => LineCount(ret) = 1 + Len(world.download.val)

\* C6 amended: a successful download returns a header line stating the file
\* count, followed by one entry line per pair of a handed-over granule and a
\* downloaded file, i.e. min(file count, granule count) entries; this equals
\* the file count when no more files than granules come back.  An entry whose
\* formatting fails becomes a placeholder line and the number of lines is the
\* same.
C6_ManifestLines ==
    (Done("download") /\ DownloadCalls # <<>> /\ world.download.ok
     /\ world.download.val # <<>>)
        => LET files == world.download.val
               handed == DownloadCalls[1].granules
           IN  /\ LineCount(ret) = 1 + Min(Len(files), Len(handed))
               /\ Len(files) <= Len(handed) => LineCount(ret) = 1 + Len(files)
               /\ SubSeq(ret, 1, 2) = <<"Successfully downloaded ", Digits[Len(files) + 1]>>

C6_Witness ==
    /\ Done("download") /\ ~Truthy(req.concept_ids) /\ req.count = 1
    /\ world.search = Ok(<<G2, G1>>) /\ world.download = Ok(<<F1>>)
    /\ LineCount(ret) = 2
    /\ ret = <<"Successfully downloaded ", "1", " files to ", "./downloads", ":",
               "\n", "  - Downloaded file ", "0">>

\* the mapping the claim expects: count plus every supplied argument
Expected(op) ==
    LET a0 == [count |-> IF op = "get_datasets" THEN 5 ELSE 10]
        a1 == IF req.keyword # None THEN Put(a0, "keyword", req.keyword) ELSE a0
        a2 == IF req.daac # None THEN Put(a1, "daac", req.daac) ELSE a1
        a3 == IF op = "get_data" /\ req.short_name # None
              THEN Put(a2, "short_name", req.short_name) ELSE a2
    IN  IF req.startdate # None \/ req.stopdate # None
        THEN Put(a3, "temporal", <<req.startdate, req.stopdate>>) ELSE a3

\* C7 as stated: get_datasets and get_data call the collaborator once, with
\* the fixed count and exactly the supplied arguments: every supplied one,
\* keyword of get_data included, and no absent one.
C7_EverySuppliedArgument ==
    \A op \in {"get_datasets", "get_data"} :
        Done(op) => /\ Len(calls) = 1
                    /\ calls[1].kwargs = Expected(op)

\* C8: in get_datasets, get_data and the search by parameters of download,
\* the collaborator gets a temporal argument exactly when startdate or
\* stopdate is supplied, it is the pair (startdate, stopdate) with an absent
\* side carried as None, and no date is passed under a key of its own.
C8_TemporalPair ==
    pc = "done"
        => \A i \in 1..Len(ParamCalls) :
              LET kw == ParamCalls[i].kwargs
              IN  /\ ("temporal" \in DOMAIN kw)
                        <=> (req.startdate # None \/ req.stopdate # None)
                  /\ "temporal" \in DOMAIN kw
                        => kw["temporal"] = <<req.startdate, req.stopdate>>
                  /\ DOMAIN kw \subseteq
                        {"count", "daac", "short_name", "keyword", "temporal"}

C8_Witness ==
    /\ Done("get_data") /\ req.startdate = None /\ req.stopdate = "2002"
    /\ Len(ParamCalls) = 1
    /\ ParamCalls[1].kwargs["temporal"] = <<None, "2002">>

Renders(ds) == ds.concept_id.ok /\ ds.abstract.ok /\ ds.summary.ok
               /\ "short-name" \in DOMAIN ds.summary.val

\* C9 as stated: in get_datasets a record one of whose accessors raises
\* renders as the empty string and never aborts the response: for n >= 1
\* records the text has n blocks joined by n - 1 separators, the siblings
\* rendered normally.
C9_RecordFailureContained ==
    (Done("get_datasets") /\ world.search.ok /\ Len(world.search.val) > 0)
        => LET found == world.search.val
           IN  /\ ~raised
               /\ CountTok(ret, "\n---\n") = Len(found) - 1
               /\ CountTok(ret, "ConceptID: ")
                     = Cardinality({i \in 1..Len(found) : Renders(found[i])})

\* C10 as stated: in a download, directory creation and batch download come
\* only after a successful login and a search step, the batch download never
\* gets an empty granule list whatever count is, and the early error returns
\* (not authenticated, no parameters, no granules) leave the filesystem
\* untouched.
C10_DownloadOrder ==
    Done("download")
        => /\ \A i \in 1..Len(calls) :
                 calls[i].fn \in {"makedirs", "download"}
                    => /\ LoggedIn /\ calls[1].fn = "login"
                       /\ \E j \in 2..(i - 1) : calls[j].fn = "search_data"
           /\ \A i \in 1..Len(DownloadCalls) : DownloadCalls[i].granules # <<>>
           /\ ret \in {AuthError, ParamError, NoGranules}
                 => (MakedirsCalls = <<>> /\ DownloadCalls = <<>>)

====
